---- MODULE Spec2Model ----
(***************************************************************************)
(* Model of wildbg's evaluator trait (crates/engine/src/evaluator.rs) and  *)
(* of the rollout evaluator (src/rollout.rs).                              *)
(*                                                                         *)
(* Position, GameResult, Probabilities and the dice generator live in     *)
(* files that are not part of the sources at hand; they are modelled from *)
(* their contract: a position is the board seen by the player on move     *)
(* ("x"), every checker is recorded by its distance to being borne off,   *)
(* and the two sides do not block or hit each other (a pure race).        *)
(***************************************************************************)
EXTENDS Integers, Sequences, FiniteSets, TLC

\* ------------------------------------------------------------------ bounds

\* Largest distance (in pips) of a checker in a starting position of a
\* single rollout.
MaxStartPip == 7

\* Metric values an inner evaluator may return during a rollout: 0..MaxMetric.
MaxMetric == 1

\* Longest slice handed to worst_position directly.
MaxSlice == 3

\* ------------------------------------------------------- Position (contract)

Faces == 1..6

\* All ordered pairs of die faces.
Dice == Faces \X Faces

\* A side of the board: the distances of its checkers, farthest first, and
\* the number of checkers it has borne off.
Side(pips, off) == [pips |-> pips, off |-> off]

NoCheckers(b) == b = <<>>

Highest(b) == b[1]

Remove(b, k) == [i \in 1..(Len(b) - 1) |-> IF i < k THEN b[i] ELSE b[i + 1]]

Insert(b, v) ==
    LET c == Cardinality({j \in 1..Len(b) : b[j] >= v})
    IN [i \in 1..(Len(b) + 1) |-> IF i <= c THEN b[i] ELSE IF i = c + 1 THEN v ELSE b[i - 1]]

\* The k-th checker may be played with die d: it moves down, or it is borne
\* off when all checkers are in the home board and it either fits exactly or
\* is the rearmost checker.
CanMove(b, k, d) ==
    \/ b[k] > d
    \/ Highest(b) <= 6 /\ (b[k] = d \/ b[k] = Highest(b))

MoveChecker(s, k, d) ==
    IF s.pips[k] > d
    THEN [pips |-> Insert(Remove(s.pips, k), s.pips[k] - d), off |-> s.off]
    ELSE [pips |-> Remove(s.pips, k), off |-> s.off + 1]

\* Every way to play one die; a side without checkers stays as it is.
MoveDie(s, d) ==
    IF NoCheckers(s.pips) THEN {s}
    ELSE {MoveChecker(s, k, d) : k \in {j \in 1..Len(s.pips) : CanMove(s.pips, j, d)}}

RECURSIVE MoveDice(_, _)
MoveDice(S, ds) ==
    IF ds = <<>> THEN S
    ELSE MoveDice(UNION {MoveDie(s, Head(ds)) : s \in S}, Tail(ds))

\* Order in which the move generator lists the resulting boards: fewer
\* checkers first, then the board whose first differing checker is nearer.
BoardLess(a, b) ==
    \/ Len(a.pips) < Len(b.pips)
    \/ /\ Len(a.pips) = Len(b.pips)
       /\ \E i \in 1..Len(a.pips) :
            a.pips[i] < b.pips[i] /\ \A j \in 1..(i - 1) : a.pips[j] = b.pips[j]

RECURSIVE SortBoards(_)
SortBoards(S) ==
    IF S = {} THEN <<>>
    ELSE LET m == CHOOSE a \in S : \A b \in S \ {a} : BoardLess(a, b)
         IN <<m>> \o SortBoards(S \ {m})

switch_sides(p) == [x |-> p.o, o |-> p.x]

\* Every position after a legal play of `dice`, each already seen by the
\* player who moves next.
all_positions_after_moving(p, dice) ==
    LET d1 == dice[1]
        d2 == dice[2]
        ends == IF d1 = d2
                THEN MoveDice({p.x}, <<d1, d1, d1, d1>>)
                ELSE MoveDice({p.x}, <<d1, d2>>) \cup MoveDice({p.x}, <<d2, d1>>)
        sorted == SortBoards(ends)
    IN [k \in 1..Len(sorted) |-> switch_sides([x |-> sorted[k], o |-> p.o])]

\* The player on move has lost: the opponent has borne off every checker.
has_lost(p) == NoCheckers(p.o.pips)

GameResults == {"WinNormal", "WinGammon", "WinBg", "LoseNormal", "LoseGammon", "LoseBg"}

reverse(r) ==
    CASE r = "WinNormal" -> "LoseNormal"
      [] r = "WinGammon" -> "LoseGammon"
      [] r = "WinBg" -> "LoseBg"
      [] r = "LoseNormal" -> "WinNormal"
      [] r = "LoseGammon" -> "WinGammon"
      [] r = "LoseBg" -> "WinBg"

\* A checker in the winner's home board: 19 or more pips from home.
InOpponentsHome(b) == \E i \in 1..Len(b) : b[i] >= 19

game_state(p) ==
    IF NoCheckers(p.x.pips)
    THEN IF p.o.off > 0 THEN "WinNormal"
         ELSE IF InOpponentsHome(p.o.pips) THEN "WinBg" ELSE "WinGammon"
    ELSE IF NoCheckers(p.o.pips)
    THEN IF p.x.off > 0 THEN "LoseNormal"
         ELSE IF InOpponentsHome(p.x.pips) THEN "LoseBg" ELSE "LoseGammon"
    ELSE "Ongoing"

\* ------------------------------------------- Evaluator (evaluator.rs 20-88)

\* Probabilities in hundredths; the six fields of the struct.
Probs(wn, wg, wb, ln, lg, lb) ==
    [win_normal |-> wn, win_gammon |-> wg, win_bg |-> wb,
     lose_normal |-> ln, lose_gammon |-> lg, lose_bg |-> lb]

\* Probabilities::switch_sides swaps every win field with the lose field of
\* the same magnitude.
probs_switch_sides(pr) ==
    [win_normal |-> pr.lose_normal, win_gammon |-> pr.lose_gammon, win_bg |-> pr.lose_bg,
     lose_normal |-> pr.win_normal, lose_gammon |-> pr.win_gammon, lose_bg |-> pr.win_bg]

\* Cubeless equity: a normal game counts 1, a gammon 2, a backgammon 3.
equity(pr) ==
    (pr.win_normal - pr.lose_normal) + 2 * (pr.win_gammon - pr.lose_gammon)
        + 3 * (pr.win_bg - pr.lose_bg)

\* min_by mistaken for max_by: the index of the first greatest value.
max_by(value) ==
    CHOOSE i \in 1..Len(value) :
        /\ \A j \in 1..Len(value) : value[i] >= value[j]
        /\ \A j \in 1..(i - 1) : value[j] < value[i]

\* Iterator::min_by over the metric values: the index of the least value,
\* the first one when several are equally least.
min_by(value) ==
    CHOOSE i \in 1..Len(value) :
        /\ \A j \in 1..Len(value) : value[i] <= value[j]
        /\ \A j \in 1..(i - 1) : value[j] > value[i]

\* The single-candidate shortcut left out.
never_single(positions) == FALSE

\* positions.len() == 1
is_single(positions) == Len(positions) = 1

\* The last position that has lost instead of the first.
find_last_lost(positions) ==
    LET lost == {i \in 1..Len(positions) : has_lost(positions[i])}
    IN IF lost = {} THEN 0 ELSE CHOOSE i \in lost : \A j \in lost : i >= j

\* positions.iter().find(|p| p.has_lost()): the index of the first position
\* that has lost, 0 when there is none.
find_has_lost(positions) ==
    LET lost == {i \in 1..Len(positions) : has_lost(positions[i])}
    IN IF lost = {} THEN 0 ELSE CHOOSE i \in lost : \A j \in lost : i <= j

\* worst_position: the position returned and the number of calls of eval
\* made.  value[i] stands for value(&self.eval(&positions[i])).
worst_position(positions, value) ==
    IF is_single(positions)
    THEN [position |-> positions[1], evals |-> 0]
    ELSE IF find_has_lost(positions) # 0
    THEN [position |-> positions[find_has_lost(positions)], evals |-> 0]
    ELSE [position |-> positions[min_by(value)], evals |-> Len(positions)]

best_position(p, dice, value) ==
    worst_position(all_positions_after_moving(p, dice), value)

\* Probabilities::win: the three win fields together.
win(pr) == pr.win_normal + pr.win_gammon + pr.win_bg

\* The metrics a caller hands to best_position / worst_position.
metric(name, pr) == IF name = "equity" THEN equity(pr) ELSE win(pr)

\* The metric values of the positions under evaluator ev (a table from
\* positions to probabilities: an evaluator that answers the same for the
\* same position).
values(positions, ev, name) ==
    [i \in 1..Len(positions) |-> metric(name, ev[positions[i]])]

best_position_by_equity(p, dice, ev) ==
    best_position(p, dice, values(all_positions_after_moving(p, dice), ev, "equity"))

\* The probabilities pushed as evaluated, not switched back.
ranked_entry_unswitched(p, pr) == <<switch_sides(p), pr>>

\* The pair pushed for one position after moving.
ranked_entry(p, pr) == <<switch_sides(p), probs_switch_sides(pr)>>

\* The comparison with a and b exchanged: ascending equity.
by_equity_ascending(a, b) == equity(a[2]) <= equity(b[2])

\* b.1.equity().partial_cmp(&a.1.equity()): a may stand before b.
by_equity_descending(a, b) == equity(a[2]) >= equity(b[2])

Perms(n) == {f \in [1..n -> 1..n] : \A i, j \in 1..n : f[i] = f[j] => i = j}

\* sort_unstable_by: the entries in an order the comparison allows; equal
\* entries may end up in any order.
sort_unstable_by(entries) ==
    {[k \in 1..Len(entries) |-> entries[f[k]]] : f \in
        {g \in Perms(Len(entries)) :
            \A k \in 1..(Len(entries) - 1) :
                by_equity_descending(entries[g[k]], entries[g[k + 1]])}}

\* positions_and_probabilities_by_equity: the vectors it may return.
positions_and_probabilities_by_equity(p, dice, ev) ==
    LET after_moving == all_positions_after_moving(p, dice)
        pos_and_probs == [k \in 1..Len(after_moving) |->
                            ranked_entry(after_moving[k], ev[after_moving[k]])]
    IN sort_unstable_by(pos_and_probs)

\* ------------------------------------------ RolloutEvaluator (rollout.rs)

VARIABLES
    pc,          \* where the rollout evaluator is: "eval", "rollout", "returned", "done"
    from,        \* the position handed to eval / single_rollout
    first_dice,  \* the forced dice of the running single_rollout
    iteration,   \* single_rollout's ply counter
    pos,         \* single_rollout's current position
    result,      \* what single_rollout returned, "none" before
    rolled,      \* the pairs drawn from dice_gen by the running single_rollout
    used,        \* the dice played at each ply of the running single_rollout
    onMove,      \* who plays the current ply: "x" is the mover of `from`
    loop,        \* eval's loop variables <<die1, die2, die3, die4>>
    results,     \* eval's histogram, one bucket for each GameResult
    probs,       \* what eval returned, "none" before
    spc,         \* a caller of the trait's methods: "idle", "best", "ranked", "worst"
    call,        \* what that caller calls: "by_equity" or "worst"
    given,       \* the position and the dice handed to the by-equity methods
    slice,       \* the positions handed to worst_position
    by,          \* the metric handed to worst_position: "equity" or "win"
    evaluator,   \* the evaluator's answers: a table from positions to probabilities
    chosen,      \* position returned by the last selection and its calls of eval
    ranked       \* vector returned by positions_and_probabilities_by_equity

rvars == <<pc, from, first_dice, iteration, pos, result, rolled, used, onMove>>

rvars_but_pc == <<from, first_dice, iteration, pos, result, rolled, used, onMove>>

evars == <<loop, results, probs>>

svars == <<spc, call, given, slice, by, evaluator, chosen, ranked>>

vars == <<rvars, evars, svars>>

MetricValues == 0..MaxMetric

\* The forced dice left one ply early.
use_first_dice_late(fd, it) == Len(fd) > it + 1

\* first_dice.len() > iteration
use_first_dice(fd, it) == Len(fd) > it

\* The parities exchanged.
rollout_result_swapped(it, r) == IF it % 2 = 0 THEN r ELSE reverse(r)

\* The value returned for a finished game.
rollout_result(it, r) == IF it % 2 = 0 THEN reverse(r) ELSE r

\* The ply counter never counted up.
same_iteration(it) == it

next_iteration(it) == it + 1

Other(m) == IF m = "x" THEN "o" ELSE "x"

\* One pass of single_rollout's loop; dice_gen rolls a pair of `rolls`.
RolloutPly(rolls) ==
    /\ pc = "rollout"
    /\ \E dice \in (IF use_first_dice(first_dice, iteration)
                    THEN {first_dice[iteration + 1]} ELSE rolls) :
       LET n == Len(all_positions_after_moving(pos, dice))
       IN \E value \in [1..n -> MetricValues] :
            LET new == best_position(pos, dice, value).position
            IN /\ pos' = new
               /\ used' = Append(used, dice)
               /\ rolled' = IF use_first_dice(first_dice, iteration)
                            THEN rolled ELSE Append(rolled, dice)
               /\ IF game_state(new) = "Ongoing"
                  THEN /\ iteration' = next_iteration(iteration)
                       /\ onMove' = Other(onMove)
                       /\ UNCHANGED <<pc, result>>
                  ELSE /\ result' = rollout_result(iteration, game_state(new))
                       /\ pc' = "returned"
                       /\ UNCHANGED <<iteration, onMove>>
    /\ UNCHANGED <<from, first_dice>>
    /\ UNCHANGED <<evars, svars>>


\* No caller of the selection methods.
SelectIdle ==
    /\ spc = "idle"
    /\ call = "none"
    /\ given = "none"
    /\ slice = <<>>
    /\ by = "equity"
    /\ evaluator = <<>>
    /\ chosen = "none"
    /\ ranked = <<>>

\* No rollout.
RolloutIdle ==
    /\ pc = "idle"
    /\ from = "none"
    /\ pos = "none"
    /\ first_dice = <<>>
    /\ iteration = 0
    /\ result = "none"
    /\ rolled = <<>>
    /\ used = <<>>
    /\ onMove = "x"
    /\ loop = <<>>
    /\ results = [r \in GameResults |-> 0]
    /\ probs = "none"

\* ---- single_rollout called on its own

\* Dice a test hands to single_rollout, as forced dice or through its dice
\* generator.
TestDice == {<<1, 2>>, <<2, 1>>, <<1, 1>>, <<4, 5>>, <<6, 6>>}

\* Sides that are borne off within a few rolls, and a side far from home.
FastSides ==
    {Side(<<MaxStartPip>>, 1), Side(<<3>>, 0), Side(<<2, 1>>, 1), Side(<<4, 2>>, 0)}

SlowSides == {Side(<<20>>, 0)}

RolloutStarts ==
    {[x |-> a, o |-> b] : a \in FastSides, b \in FastSides \cup SlowSides}
        \cup {[x |-> a, o |-> b] : a \in SlowSides, b \in FastSides}

Prefixes == {<<>>} \cup {<<d>> : d \in TestDice} \cup {<<d, e>> : d, e \in TestDice}

InitRollout ==
    /\ pc = "rollout"
    /\ from \in RolloutStarts
    /\ pos = from
    /\ first_dice \in Prefixes
    /\ iteration = 0
    /\ result = "none"
    /\ rolled = <<>>
    /\ used = <<>>
    /\ onMove = "x"
    /\ loop = <<>>
    /\ results = [r \in GameResults |-> 0]
    /\ probs = "none"
    /\ SelectIdle

NextRollout == RolloutPly(TestDice)

SpecRollout == InitRollout /\ [][NextRollout]_vars

\* ---- RolloutEvaluator::eval

\* The three inner loops one face short.
next_loop_short(t) ==
    IF t[4] + 1 < 6 THEN <<t[1], t[2], t[3], t[4] + 1>>
    ELSE IF t[3] + 1 < 6 THEN <<t[1], t[2], t[3] + 1, 1>>
    ELSE IF t[2] + 1 < 6 THEN <<t[1], t[2] + 1, 1, 1>>
    ELSE <<t[1] + 1, 1, 1, 1>>

\* The four nested loops `for die in 1_usize..7`, innermost last: the loop
\* variables of the next pass; die1 = 7 when the loops are over.
next_loop(t) ==
    IF t[4] + 1 < 7 THEN <<t[1], t[2], t[3], t[4] + 1>>
    ELSE IF t[3] + 1 < 7 THEN <<t[1], t[2], t[3] + 1, 1>>
    ELSE IF t[2] + 1 < 7 THEN <<t[1], t[2] + 1, 1, 1>>
    ELSE <<t[1] + 1, 1, 1, 1>>

loop_running(t) == t[1] < 7

\* The first pair handed over twice.
eval_first_dice_repeated(t) == <<<<t[1], t[2]>>, <<t[1], t[2]>>>>

\* &[(die1, die2), (die3, die4)]
eval_first_dice(t) == <<<<t[1], t[2]>>, <<t[3], t[4]>>>>

\* results[result as usize] += 1
count_result(res, r) == [res EXCEPT ![r] = @ + 1]

Sum(res) ==
    res["WinNormal"] + res["WinGammon"] + res["WinBg"]
        + res["LoseNormal"] + res["LoseGammon"] + res["LoseBg"]

\* Probabilities::new: every count divided by the sum of the counts, kept
\* as the fraction <<count, sum>>.
Probabilities_new(res) ==
    [win_normal |-> <<res["WinNormal"], Sum(res)>>,
     win_gammon |-> <<res["WinGammon"], Sum(res)>>,
     win_bg |-> <<res["WinBg"], Sum(res)>>,
     lose_normal |-> <<res["LoseNormal"], Sum(res)>>,
     lose_gammon |-> <<res["LoseGammon"], Sum(res)>>,
     lose_bg |-> <<res["LoseBg"], Sum(res)>>]

\* eval calls single_rollout with the dice of the current pass.
EvalCall ==
    /\ pc = "eval"
    /\ loop_running(loop)
    /\ first_dice' = eval_first_dice(loop)
    /\ iteration' = 0
    /\ pos' = from
    /\ result' = "none"
    /\ rolled' = <<>>
    /\ used' = <<>>
    /\ onMove' = "x"
    /\ pc' = "rollout"
    /\ UNCHANGED <<from, evars, svars>>

\* single_rollout has returned: its result is counted, its locals are gone
\* and the loops go on.
EvalCount ==
    /\ pc = "returned"
    /\ results' = count_result(results, result)
    /\ loop' = next_loop(loop)
    /\ first_dice' = <<>>
    /\ iteration' = 0
    /\ pos' = from
    /\ result' = "none"
    /\ rolled' = <<>>
    /\ used' = <<>>
    /\ onMove' = "x"
    /\ pc' = "eval"
    /\ UNCHANGED <<from, probs, svars>>

\* The loops are over: eval returns Probabilities::new(&results).
EvalReturn ==
    /\ pc = "eval"
    /\ ~loop_running(loop)
    /\ probs' = Probabilities_new(results)
    /\ pc' = "done"
    /\ UNCHANGED <<rvars_but_pc, loop, results, svars>>

\* x 6:1; o 19:1 of the test correct_results_after_first_or_second_half_move:
\* one checker each, six pips from home, fourteen checkers borne off.
TestPosition == [x |-> Side(<<6>>, 14), o |-> Side(<<6>>, 14)]

EvalStarts ==
    {TestPosition,
     [x |-> Side(<<4, 2>>, 1), o |-> Side(<<3>>, 0)],
     [x |-> Side(<<7>>, 1), o |-> Side(<<6>>, 0)]}

InitEval ==
    /\ pc = "eval"
    /\ from \in EvalStarts
    /\ pos = from
    /\ first_dice = <<>>
    /\ iteration = 0
    /\ result = "none"
    /\ rolled = <<>>
    /\ used = <<>>
    /\ onMove = "x"
    /\ loop = <<1, 1, 1, 1>>
    /\ results = [r \in GameResults |-> 0]
    /\ probs = "none"
    /\ SelectIdle

NextEval == EvalCall \/ RolloutPly(Dice) \/ EvalCount \/ EvalReturn

SpecEval == InitEval /\ [][NextEval]_vars

\* ---- the trait's selection methods called on their own

\* Answers of an evaluator, in hundredths: EvaluatorFake's two answers of
\* the trait's tests and a third of the same equity as the first.
ProbSet ==
    {Probs(50, 10, 10, 10, 10, 10), Probs(38, 20, 10, 12, 10, 10),
     Probs(47, 12, 10, 11, 10, 10)}

\* Positions to move from; the first is x 7:2; o 20:2 of the trait's tests.
SelectStarts ==
    {[x |-> Side(<<7, 7>>, 13), o |-> Side(<<5, 5>>, 13)],
     [x |-> Side(<<2, 1>>, 0), o |-> Side(<<3>>, 0)],
     [x |-> Side(<<4, 2>>, 1), o |-> Side(<<4>>, 1)],
     [x |-> Side(<<6>>, 1), o |-> Side(<<6>>, 1)]}

\* Positions a caller of worst_position passes: two in which the player on
\* move has lost, two in which the game goes on.
SlicePositions ==
    {[x |-> Side(<<3>>, 0), o |-> Side(<<>>, 2)],
     [x |-> Side(<<5>>, 1), o |-> Side(<<>>, 2)],
     [x |-> Side(<<3>>, 0), o |-> Side(<<1>>, 1)],
     [x |-> Side(<<3>>, 0), o |-> Side(<<2>>, 1)]}

Slices == UNION {[1..n -> SlicePositions] : n \in 1..MaxSlice}

Range(f) == {f[i] : i \in DOMAIN f}

InitSelect ==
    /\ RolloutIdle
    /\ spc = "idle"
    /\ chosen = "none"
    /\ ranked = <<>>
    /\ \/ /\ call = "by_equity"
          /\ given \in SelectStarts \X Dice
          /\ slice = <<>>
          /\ by = "equity"
          /\ evaluator \in [Range(all_positions_after_moving(given[1], given[2])) -> ProbSet]
       \/ /\ call = "worst"
          /\ given = "none"
          /\ slice \in Slices
          /\ by \in {"equity", "win"}
          /\ evaluator \in [Range(slice) -> ProbSet]

CallBestPositionByEquity ==
    /\ spc = "idle"
    /\ call = "by_equity"
    /\ chosen' = best_position_by_equity(given[1], given[2], evaluator)
    /\ spc' = "best"
    /\ UNCHANGED <<call, given, slice, by, evaluator, ranked>>
    /\ UNCHANGED <<rvars, evars>>

CallPositionsAndProbabilitiesByEquity ==
    /\ spc = "best"
    /\ ranked' \in positions_and_probabilities_by_equity(given[1], given[2], evaluator)
    /\ spc' = "ranked"
    /\ UNCHANGED <<call, given, slice, by, evaluator, chosen>>
    /\ UNCHANGED <<rvars, evars>>

CallWorstPosition ==
    /\ spc = "idle"
    /\ call = "worst"
    /\ chosen' = worst_position(slice, values(slice, evaluator, by))
    /\ spc' = "worst"
    /\ UNCHANGED <<call, given, slice, by, evaluator, ranked>>
    /\ UNCHANGED <<rvars, evars>>

NextSelect ==
    CallBestPositionByEquity \/ CallPositionsAndProbabilitiesByEquity \/ CallWorstPosition

SpecSelect == InitSelect /\ [][NextSelect]_vars

\* ------------------------------------------------------------------ claims

IsWin(r) == r \in {"WinNormal", "WinGammon", "WinBg"}

IsLose(r) == r \in {"LoseNormal", "LoseGammon", "LoseBg"}

Magnitude(r) ==
    IF r \in {"WinNormal", "LoseNormal"} THEN "Normal"
    ELSE IF r \in {"WinGammon", "LoseGammon"} THEN "Gammon" ELSE "Bg"

\* The candidates of the running selection.
Candidates ==
    IF call = "worst" THEN slice
    ELSE all_positions_after_moving(given[1], given[2])

\* Equity the evaluator gives the k-th candidate.
CandidateEquity(k) == equity(evaluator[Candidates[k]])

NoCandidateLost == \A k \in 1..Len(Candidates) : ~has_lost(Candidates[k])

\* The candidate of least equity, when exactly one has it; 0 otherwise.
OnlyLowest ==
    LET low == {k \in 1..Len(Candidates) :
                    \A l \in 1..Len(Candidates) : CandidateEquity(k) <= CandidateEquity(l)}
    IN IF Cardinality(low) = 1 THEN CHOOSE k \in low : TRUE ELSE 0

\* C1 as stated: when single_rollout returns, an even ply counter gives the
\* terminal result unchanged and an odd one gives it reversed.
C1_EvenUnchanged ==
    pc = "returned" =>
        result = IF iteration % 2 = 0 THEN game_state(pos) ELSE reverse(game_state(pos))

\* C1 amended: when single_rollout returns, the position is over, and an even
\* ply counter gives the terminal result reversed, an odd one gives it
\* unchanged.
C1_EvenReversed ==
    pc = "returned" =>
        /\ game_state(pos) # "Ongoing"
        /\ result = IF iteration % 2 = 0 THEN reverse(game_state(pos)) ELSE game_state(pos)

\* A game that ended on an odd ply counter with the result as found.
C1_Witness ==
    /\ pc = "returned"
    /\ iteration % 2 = 1
    /\ result = game_state(pos)

\* C2: the result of single_rollout is seen by the mover of the starting
\* position: a win exactly when that mover played the last ply (ply counter
\* even), a loss exactly when the opponent did, of the magnitude of the
\* terminal result.
C2_OriginalMoversView ==
    pc = "returned" =>
        /\ has_lost(pos)
        /\ IsWin(result) <=> onMove = "x"
        /\ IsLose(result) <=> onMove = "o"
        /\ onMove = "x" <=> iteration % 2 = 0
        /\ Len(used) = iteration + 1
        /\ Magnitude(result) = Magnitude(game_state(pos))

\* The opponent ended the game after both forced dice: a lost gammon.
C2_Witness ==
    /\ pc = "returned"
    /\ Len(first_dice) = 2
    /\ onMove = "o"
    /\ result = "LoseGammon"

\* The number of passes of eval's loops before the pass with variables t.
LoopIndex(t) == (t[1] - 1) * 216 + (t[2] - 1) * 36 + (t[3] - 1) * 6 + (t[4] - 1)

\* What holds of eval's histogram in every state.
C3_State ==
    /\ pc \in {"eval", "rollout", "returned"} => Sum(results) = LoopIndex(loop)
    /\ pc \in {"rollout", "returned"} =>
        /\ loop \in Faces \X Faces \X Faces \X Faces
        /\ first_dice = <<<<loop[1], loop[2]>>, <<loop[3], loop[4]>>>>
    /\ pc = "done" => Sum(results) = 1296 /\ probs.win_normal[2] = 1296

\* What holds of every step that ends a rollout or changes the histogram.
C3_Step ==
    /\ results' # results =>
        /\ pc = "returned"
        /\ \E r \in GameResults : results' = [results EXCEPT ![r] = @ + 1]
    /\ pc = "returned" => results' # results /\ LoopIndex(loop') = LoopIndex(loop) + 1

\* C3: eval runs single_rollout once for each of the 6*6*6*6 tuples, in
\* order, with the tuple as forced dice; every rollout adds one to one
\* bucket; the buckets sum to 1296 when the loops are over.
C3_EveryTupleOnce == []C3_State /\ [][C3_Step]_vars

\* eval is over for a position whose results depend on the dice rolled.
C3_Witness ==
    /\ pc = "done"
    /\ Sum(results) = 1296
    /\ results["WinGammon"] = 930

\* C4: the test position gives 1053 won and 243 lost normal games, that is
\* 0.8125 and 0.1875, whatever is rolled and whatever the evaluator answers.
C4_TestPositionResult ==
    (pc = "done" /\ from = TestPosition) =>
        /\ results = [r \in GameResults |->
                        IF r = "WinNormal" THEN 1053 ELSE IF r = "LoseNormal" THEN 243 ELSE 0]
        /\ probs.win_normal[1] * 10000 = 8125 * probs.win_normal[2]
        /\ probs.lose_normal[1] * 10000 = 1875 * probs.lose_normal[2]
        /\ \A f \in {"win_gammon", "win_bg", "lose_gammon", "lose_bg"} : probs[f][1] = 0

C4_Witness ==
    /\ pc = "done"
    /\ from = TestPosition
    /\ probs.win_normal = <<1053, 1296>>

DecidedByEquity ==
    /\ OnlyLowest # 0
    /\ \/ Len(Candidates) = 1
       \/ NoCandidateLost
       \/ /\ has_lost(Candidates[OnlyLowest])
          /\ \A k \in 1..(OnlyLowest - 1) : ~has_lost(Candidates[k])

C7_SingleCandidateNoEval ==
    (spc \in {"best", "ranked", "worst"} /\ Len(Candidates) = 1) =>
        chosen = [position |-> Candidates[1], evals |-> 0]

\* A single candidate that has not lost was returned.
C7_Witness ==
    /\ spc = "best"
    /\ Len(Candidates) = 1
    /\ ~has_lost(Candidates[1])
    /\ chosen.position = Candidates[1]

\* C8: of two or more candidates of which one has lost, the first that has
\* lost is returned without a call of eval.
C8_FirstLostNoEval ==
    (spc \in {"best", "ranked", "worst"} /\ Len(Candidates) >= 2 /\ ~NoCandidateLost) =>
        /\ chosen.evals = 0
        /\ \E i \in 1..Len(Candidates) :
            /\ has_lost(Candidates[i])
            /\ \A j \in 1..(i - 1) : ~has_lost(Candidates[j])
            /\ chosen.position = Candidates[i]

\* The first lost candidate was returned although another candidate has a
\* strictly smaller metric and a different lost candidate follows.
C8_Witness ==
    /\ spc = "worst"
    /\ Len(slice) >= 3
    /\ ~has_lost(slice[1])
    /\ has_lost(slice[2])
    /\ has_lost(slice[3])
    /\ slice[3] # slice[2]
    /\ chosen.position = slice[2]
    /\ metric(by, evaluator[slice[1]]) < metric(by, evaluator[slice[2]])

\* The ranked vector is candidates listed in the order f.
RankedBy(f) ==
    ranked = [k \in 1..Len(Candidates) |->
                <<switch_sides(Candidates[f[k]]),
                  probs_switch_sides(evaluator[Candidates[f[k]]])>>]

Descending == \A k \in 1..(Len(ranked) - 1) : equity(ranked[k][2]) >= equity(ranked[k + 1][2])

\* C9 as stated: the ranked vector is the stable sort of the candidates by
\* descending equity: entries of equal equity keep their order.
C9_StableSort ==
    spc = "ranked" =>
        /\ Descending
        /\ \E f \in Perms(Len(Candidates)) :
            /\ RankedBy(f)
            /\ \A k, l \in 1..Len(Candidates) :
                (k < l /\ equity(ranked[k][2]) = equity(ranked[l][2])) => f[k] < f[l]

\* C9 amended: the ranked vector holds every candidate once, switched back
\* with its probabilities switched back, by descending equity; entries of
\* equal equity stand in any order.
C9_DescendingSort ==
    spc = "ranked" =>
        /\ Descending
        /\ \E f \in Perms(Len(Candidates)) : RankedBy(f)

\* The ranking moved the last of several candidates to the front.
C9_Witness ==
    /\ spc = "ranked"
    /\ Len(Candidates) >= 2
    /\ ranked[1][1] = switch_sides(Candidates[Len(Candidates)])
    /\ equity(ranked[1][2]) > equity(ranked[2][2])

\* C10: the dice of ply i are first_dice[i] within the forced dice and the
\* next pair of the dice generator beyond them; the generator is asked once
\* for each such ply and never before.
C10_DiceInOrder ==
    /\ \A i \in 1..Len(used) :
        used[i] = IF i <= Len(first_dice) THEN first_dice[i] ELSE rolled[i - Len(first_dice)]
    /\ Len(rolled) = IF Len(used) > Len(first_dice) THEN Len(used) - Len(first_dice) ELSE 0
    /\ pc = "rollout" => Len(used) = iteration
    /\ pc = "returned" => Len(used) = iteration + 1

\* One forced pair, then two pairs of the generator, as in the test
\* single_rollout_win_normal.
C10_Witness ==
    /\ pc = "returned"
    /\ Len(first_dice) = 1
    /\ iteration = 2
    /\ Len(rolled) = 2

====
